---- MODULE Spec2Model ----
(***************************************************************************)
(* Model of the Express/Prisma starter template: the start-up of           *)
(* src/index.ts (env.ts, then app.listen) and the documented Categories    *)
(* resource (schema, handlers and router of README.md, steps 1 to 5).      *)
(*                                                                         *)
(* Strings that the code inspects character by character (names, slugs,    *)
(* PORT) are sequences of one-character strings.  A JSON value of a        *)
(* request body is a record [t, s, b]: its type tag, its text and its      *)
(* boolean, so that a wrong-typed field is a value like any other.  A      *)
(* body is a record of the three fields the handlers read, each a set:     *)
(* {} when the key is absent, {v} when it is present.  The fields          *)
(* description and color are carried by the code untouched and are left    *)
(* out.                                                                    *)
(*                                                                         *)
(* The database is taken to be available: an ORM call fails only with     *)
(* the errors its contract defines for the data it is given (P2002 on a    *)
(* @unique column, P2025 on a missing row, a validation error on missing   *)
(* required data).                                                         *)
(***************************************************************************)
EXTENDS Integers, Sequences, FiniteSets, TLC

VARIABLES
  env,      \* process.env as seen by EnvSchema.parse
  proc,     \* "starting", "configured", "listening" or "exited"
  config,   \* the parsed env (PORT as a number), or NoConfig
  exitCode, \* status of process.exit, -1 while the process runs
  errors,   \* fieldErrors written by console.error at start-up
  store,    \* table categories: id -> row
  req,      \* per connection: the request being served
  pc,       \* per connection: where its middleware chain stands
  resp,     \* per connection: the response sent
  deleted   \* history: ids whose DELETE answered 200, until an update changes the row

vars == <<env, proc, config, exitCode, errors, store, req, pc, resp, deleted>>

----------------------------------------------------------------------------
(* Bounds *)

MaxId == 2        \* ids a client may name in /:id (a row may or may not have it)
MaxNameLen == 3   \* longest name given to the slug derivation in SlugSpec

----------------------------------------------------------------------------
(* Characters and String.prototype.toLowerCase *)

UpperSeq == <<"A","B","C","D","E","F","G","H","I","J","K","L","M",
              "N","O","P","Q","R","S","T","U","V","W","X","Y","Z">>
LowerSeq == <<"a","b","c","d","e","f","g","h","i","j","k","l","m",
              "n","o","p","q","r","s","t","u","v","w","x","y","z">>
Digits == <<"0","1","2","3","4","5","6","7","8","9">>

Range(s) == {s[i] : i \in DOMAIN s}

toLowerCaseChar(c) ==
  IF \E i \in DOMAIN UpperSeq : UpperSeq[i] = c
  THEN LowerSeq[CHOOSE i \in DOMAIN UpperSeq : UpperSeq[i] = c]
  ELSE c

toLowerCase(s) == [i \in DOMAIN s |-> toLowerCaseChar(s[i])]

\* the character class [a-z0-9]
InClass(c) == c \in Range(LowerSeq) \cup Range(Digits)

\* the rest of s after its leading run of characters outside the class
RECURSIVE SkipRun(_)
SkipRun(s) ==
  IF s = <<>> \/ InClass(Head(s)) THEN s ELSE SkipRun(Tail(s))

\* (the derivation with the "+" of the pattern dropped: one "-" per character)
RECURSIVE ReplaceEachChar(_)
ReplaceEachChar(s) ==
  IF s = <<>> THEN <<>>
  ELSE IF InClass(Head(s)) THEN <<Head(s)>> \o ReplaceEachChar(Tail(s))
  ELSE <<"-">> \o ReplaceEachChar(Tail(s))

\* .replace(/[^a-z0-9]+/g, "-"): every maximal run outside the class becomes one "-"
RECURSIVE ReplaceRuns(_)
ReplaceRuns(s) ==
  IF s = <<>> THEN <<>>
  ELSE IF InClass(Head(s)) THEN <<Head(s)>> \o ReplaceRuns(Tail(s))
  ELSE <<"-">> \o ReplaceRuns(SkipRun(s))

\* .replace(/(^-|-$)/g, ""): one "-" at the start and one "-" at the end are
\* removed; a lone "-" is matched once, by the first alternative
TrimHyphens(s) ==
  LET t == IF s # <<>> /\ Head(s) = "-" THEN Tail(s) ELSE s
  IN  IF t # <<>> /\ t[Len(t)] = "-" THEN SubSeq(t, 1, Len(t) - 1) ELSE t

\* name.toLowerCase().replace(/[^a-z0-9]+/g, "-").replace(/(^-|-$)/g, "")
Slugify(name) == TrimHyphens(ReplaceRuns(toLowerCase(name)))

----------------------------------------------------------------------------
(* JSON values and request bodies *)

Str(s) == [t |-> "string", s |-> s, b |-> FALSE]
Bool(b) == [t |-> "boolean", s |-> <<>>, b |-> b]
Num(d) == [t |-> "number", s |-> d, b |-> FALSE]

Fields == {"name", "slug", "isActive"}
Body(n, s, a) == [name |-> n, slug |-> s, isActive |-> a]
NoBody == Body({}, {}, {})

Has(body, f) == body[f] # {}
Val(body, f) == CHOOSE v \in body[f] : TRUE

\* JavaScript truthiness of body[f]: undefined, "", false and 0 are falsy
Truthy(body, f) ==
  /\ Has(body, f)
  /\ LET v == Val(body, f)
     IN  CASE v.t = "string" -> v.s # <<>>
           [] v.t = "boolean" -> v.b
           [] OTHER -> v.s # <<"0">>

----------------------------------------------------------------------------
(* categories.schema.ts *)

\* z.string().min(1, ...)
NonEmptyString(v) == v.t = "string" /\ Len(v.s) >= 1

\* z.boolean()
IsBoolean(v) == v.t = "boolean"

FieldOk(f, v) == IF f = "isActive" THEN IsBoolean(v) ELSE NonEmptyString(v)

\* CategorySchema.omit({id, createdAt, updatedAt}): name and slug stay required,
\* isActive has a default.  The result is the set of fields with an issue.
CreateCategorySchema(body) ==
  {f \in {"name", "slug"} : ~Has(body, f) \/ ~FieldOk(f, Val(body, f))}
    \cup {f \in {"isActive"} : Has(body, f) /\ ~FieldOk(f, Val(body, f))}

\* the same with .partial(): every key may be absent (and isActive's default is
\* not filled in: ZodOptional answers undefined before ZodDefault is asked)
UpdateCategorySchema(body) ==
  {f \in Fields : Has(body, f) /\ ~FieldOk(f, Val(body, f))}

\* IdParamSchema: id is a string of length >= 1.  An id is modelled by a number
\* >= 1 (a cuid, or any other text a client puts in the path); 0 is the empty
\* text, which the path pattern /:id never matches.
IdParamSchema(id) == IF id < 1 THEN {"id"} ELSE {}

----------------------------------------------------------------------------
(* categories.routes.ts: what validateRequest is given on each route *)

Ops == {"list", "create", "get", "update", "delete"}

RouteNoBodyCheck(op) ==
  CASE op = "create" -> [params |-> FALSE, body |-> "none"]
    [] op = "get"    -> [params |-> TRUE,  body |-> "none"]
    [] op = "update" -> [params |-> TRUE,  body |-> "none"]
    [] op = "delete" -> [params |-> TRUE,  body |-> "none"]
    [] OTHER         -> [params |-> FALSE, body |-> "none"]

Route(op) ==
  CASE op = "create" -> [params |-> FALSE, body |-> "create"]
    [] op = "get"    -> [params |-> TRUE,  body |-> "none"]
    [] op = "update" -> [params |-> TRUE,  body |-> "update"]
    [] op = "delete" -> [params |-> TRUE,  body |-> "none"]
    [] OTHER         -> [params |-> FALSE, body |-> "none"]

\* router.get("/", handlers.listCategories) has no validateRequest
Validated(op) == op # "list"

\* the issues validateRequest finds: each declared part is checked on its own
Violations(r) ==
  LET route == Route(r.op)
  IN  (IF route.params THEN IdParamSchema(r.id) ELSE {})
        \cup (CASE route.body = "create" -> CreateCategorySchema(r.body)
                [] route.body = "update" -> UpdateCategorySchema(r.body)
                [] OTHER -> {})

----------------------------------------------------------------------------
(* env.ts *)

DefaultPort == 5000

RECURSIVE DecimalValue(_)
DecimalValue(s) ==
  IF s = <<>> THEN 0
  ELSE 10 * DecimalValue(SubSeq(s, 1, Len(s) - 1))
         + (CHOOSE d \in 0..9 : Digits[d + 1] = s[Len(s)])

\* z.coerce.number() is Number(text): NaN unless the text is numeric.  The
\* texts considered are digit strings (the empty one is 0) or hold a letter.
IsNumeric(s) == \A i \in DOMAIN s : s[i] \in Range(Digits)

\* error.flatten().fieldErrors: the keys of EnvSchema with an issue
EnvErrors(e) ==
  {k \in {"PORT"} : e.PORT # {} /\ ~IsNumeric(CHOOSE v \in e.PORT : TRUE)}
    \cup {k \in {"DATABASE_URL"} : e.DATABASE_URL = {}}

\* EnvSchema.parse on an env without issues
ParseEnv(e) ==
  [PORT |-> IF e.PORT = {} THEN DefaultPort
            ELSE DecimalValue(CHOOSE v \in e.PORT : TRUE),
   DATABASE_URL |-> CHOOSE v \in e.DATABASE_URL : TRUE]

NoConfig == [PORT |-> -1, DATABASE_URL |-> <<>>]

----------------------------------------------------------------------------
(* model Category and the ORM calls of categories.handlers.ts *)

OK == 200
CREATED == 201
NOT_FOUND == 404
CONFLICT == 409
UNPROCESSABLE_ENTITY == 422
INTERNAL_SERVER_ERROR == 500

NoStore == [i \in {} |-> [name |-> <<>>, slug |-> <<>>, isActive |-> FALSE]]

\* @default(cuid()): an id no row has
NewId(s) ==
  IF DOMAIN s = {} THEN 1
  ELSE 1 + CHOOSE m \in DOMAIN s : \A j \in DOMAIN s : j <= m

\* name String @unique, slug String @unique
UniqueConflict(s, id, row) ==
  \E j \in DOMAIN s \ {id} : s[j].name = row.name \/ s[j].slug = row.slug

WithId(s, id) ==
  [id |-> id, name |-> s[id].name, slug |-> s[id].slug, isActive |-> s[id].isActive]

\* the value the ORM accepts for a column: String for name and slug, Boolean for isActive
ColumnOk(f, v) == IF f = "isActive" THEN v.t = "boolean" ELSE v.t = "string"

\* db.category.create({ data }): isActive @default(true)
dbCreate(s, data) ==
  IF \/ ~(Has(data, "name") /\ Has(data, "slug"))
     \/ \E f \in Fields : Has(data, f) /\ ~ColumnOk(f, Val(data, f))
  THEN [code |-> "VALIDATION", store |-> s, id |-> 0]
  ELSE LET row == [name |-> Val(data, "name").s,
                   slug |-> Val(data, "slug").s,
                   isActive |-> IF Has(data, "isActive")
                                THEN Val(data, "isActive").b ELSE TRUE]
           id == NewId(s)
       IN  IF UniqueConflict(s, id, row)
           THEN [code |-> "P2002", store |-> s, id |-> 0]
           ELSE [code |-> "ok",
                 store |-> [i \in DOMAIN s \cup {id} |-> IF i = id THEN row ELSE s[i]],
                 id |-> id]

\* the row with the keys of data written over it
Merge(row, data) ==
  [name |-> IF Has(data, "name") THEN Val(data, "name").s ELSE row.name,
   slug |-> IF Has(data, "slug") THEN Val(data, "slug").s ELSE row.slug,
   isActive |-> IF Has(data, "isActive") THEN Val(data, "isActive").b ELSE row.isActive]

\* (the update with the @unique attributes of the model left out)
dbUpdateNoUnique(s, id, data) ==
  IF \E f \in Fields : Has(data, f) /\ ~ColumnOk(f, Val(data, f))
  THEN [code |-> "VALIDATION", store |-> s, id |-> 0]
  ELSE IF id \notin DOMAIN s
  THEN [code |-> "P2025", store |-> s, id |-> 0]
  ELSE [code |-> "ok", store |-> [s EXCEPT ![id] = Merge(s[id], data)], id |-> id]

\* (an update that writes the name before the clash on the slug is found)
dbUpdateNameFirst(s, id, data) ==
  IF \E f \in Fields : Has(data, f) /\ ~ColumnOk(f, Val(data, f))
  THEN [code |-> "VALIDATION", store |-> s, id |-> 0]
  ELSE IF id \notin DOMAIN s
  THEN [code |-> "P2025", store |-> s, id |-> 0]
  ELSE IF UniqueConflict(s, id, Merge(s[id], data))
  THEN [code |-> "P2002",
        store |-> [s EXCEPT ![id].name = Merge(s[id], data).name], id |-> 0]
  ELSE [code |-> "ok", store |-> [s EXCEPT ![id] = Merge(s[id], data)], id |-> id]

\* db.category.update({ where: { id }, data })
dbUpdate(s, id, data) ==
  IF \E f \in Fields : Has(data, f) /\ ~ColumnOk(f, Val(data, f))
  THEN [code |-> "VALIDATION", store |-> s, id |-> 0]
  ELSE IF id \notin DOMAIN s
  THEN [code |-> "P2025", store |-> s, id |-> 0]
  ELSE IF UniqueConflict(s, id, Merge(s[id], data))
  THEN [code |-> "P2002", store |-> s, id |-> 0]
  ELSE [code |-> "ok", store |-> [s EXCEPT ![id] = Merge(s[id], data)], id |-> id]

\* the ids of set S, greatest first
RECURSIVE Descending(_)
Descending(S) ==
  IF S = {} THEN <<>>
  ELSE LET m == CHOOSE x \in S : \A y \in S : y <= x
       IN  <<m>> \o Descending(S \ {m})

\* (the query with its where clause left out)
findManyAll(s) ==
  LET ids == Descending(DOMAIN s)
  IN  [k \in DOMAIN ids |-> WithId(s, ids[k])]

\* db.category.findMany({ where: { isActive: true }, orderBy: { createdAt: "desc" } })
\* (ids are handed out in creation order)
findMany(s) ==
  LET ids == Descending({i \in DOMAIN s : s[i].isActive})
  IN  [k \in DOMAIN ids |-> WithId(s, ids[k])]

\* (the slug taken from the name whenever there is a name)
WithSlugAlways(body) ==
  IF Truthy(body, "name")
  THEN [body EXCEPT !.slug = {Str(Slugify(Val(body, "name").s))}]
  ELSE body

\* the body with the slug filled in from the name, as both createCategory and
\* updateCategory do: if (name && !slug) slug = name.toLowerCase()...
WithSlug(body) ==
  IF Truthy(body, "name") /\ ~Truthy(body, "slug")
  THEN [body EXCEPT !.slug = {Str(Slugify(Val(body, "name").s))}]
  ELSE body

----------------------------------------------------------------------------
(* Responses *)

NoResp == [status |-> 0, rows |-> <<>>, fields |-> {}, msg |-> ""]
Json(status, rows) == [status |-> status, rows |-> rows, fields |-> {}, msg |-> ""]
Message(status, msg) == [status |-> status, rows |-> <<>>, fields |-> {}, msg |-> msg]
Invalid(fields) ==
  [status |-> UNPROCESSABLE_ENTITY, rows |-> <<>>, fields |-> fields,
   msg |-> "Validation failed"]

NoReq == [op |-> "none", id |-> 0, body |-> NoBody]

----------------------------------------------------------------------------
(* Inputs *)

Electronics == <<"E","l","e","c","t","r","o","n","i","c","s">>
electronics == <<"e","l","e","c","t","r","o","n","i","c","s">>
tv == <<"t","v">>

CreateBodies ==
  {Body({Str(Electronics)}, {}, {}),
   Body({Str(Electronics)}, {Str(electronics)}, {}),
   Body({Str(Electronics)}, {Str(tv)}, {}),
   Body({Str(electronics)}, {Str(tv)}, {}),
   Body({Num(<<"7">>)}, {}, {Str(<<"y">>)})}

UpdateBodies ==
  {NoBody,
   Body({Str(Electronics)}, {}, {}),
   Body({Str(electronics)}, {}, {}),
   Body({}, {Str(tv)}, {}),
   Body({Str(Electronics)}, {Str(tv)}, {}),
   Body({}, {}, {Bool(TRUE)}),
   Body({Str(<<>>)}, {}, {Str(<<"y">>)})}

Ids == 1..MaxId

Requests ==
  {[op |-> "list", id |-> 0, body |-> NoBody]}
    \cup {[op |-> "create", id |-> 0, body |-> b] : b \in CreateBodies}
    \cup {[op |-> o, id |-> i, body |-> NoBody] : o \in {"get", "delete"}, i \in Ids}
    \cup {[op |-> "update", id |-> i, body |-> b] : i \in Ids, b \in UpdateBodies}

\* the requests of a second client, served while one of the above is in flight
Interfering ==
  {[op |-> "create", id |-> 0, body |-> Body({Str(Electronics)}, {Str(electronics)}, {})]}
    \cup {[op |-> "delete", id |-> i, body |-> NoBody] : i \in Ids}
    \cup {[op |-> "update", id |-> i, body |-> b] :
            i \in Ids, b \in {Body({Str(electronics)}, {}, {}), Body({}, {}, {Bool(TRUE)})}}

Slots == {1, 2}
RequestsOn(r) == IF r = 1 THEN Requests ELSE Interfering

PortTexts == {<<"8","0","8","0">>, <<"a","b","c">>}
DatabaseUrl == <<"p","g">>

Envs ==
  {[PORT |-> p, DATABASE_URL |-> d] :
     p \in {{}} \cup {{t} : t \in PortTexts}, d \in {{}, {DatabaseUrl}}}

----------------------------------------------------------------------------
(* Start-up: index.ts imports env.ts, then calls app.listen *)

Init ==
  /\ env \in Envs
  /\ proc = "starting"
  /\ config = NoConfig
  /\ exitCode = -1
  /\ errors = {}
  /\ store = NoStore
  /\ req = [r \in Slots |-> NoReq]
  /\ pc = [r \in Slots |-> "idle"]
  /\ resp = [r \in Slots |-> NoResp]
  /\ deleted = {}

\* (the catch block without its process.exit)
LoadEnvNoExit ==
  /\ proc = "starting"
  /\ IF EnvErrors(env) # {}
     THEN /\ errors' = EnvErrors(env)
          /\ proc' = "configured"
          /\ UNCHANGED <<config, exitCode>>
     ELSE /\ config' = ParseEnv(env)
          /\ proc' = "configured"
          /\ UNCHANGED <<errors, exitCode>>
  /\ UNCHANGED <<env, store, req, pc, resp, deleted>>

\* env.ts: try { env = EnvSchema.parse(process.env) } catch { ...; process.exit(1) }
LoadEnv ==
  /\ proc = "starting"
  /\ IF EnvErrors(env) # {}
     THEN /\ errors' = EnvErrors(env)
          /\ exitCode' = 1
          /\ proc' = "exited"
          /\ UNCHANGED config
     ELSE /\ config' = ParseEnv(env)
          /\ proc' = "configured"
          /\ UNCHANGED <<errors, exitCode>>
  /\ UNCHANGED <<env, store, req, pc, resp, deleted>>

\* index.ts: app.listen(env.PORT, ...)
Listen ==
  /\ proc = "configured"
  /\ proc' = "listening"
  /\ UNCHANGED <<env, config, exitCode, errors, store, req, pc, resp, deleted>>

----------------------------------------------------------------------------
(* A request on connection r.  Only the ORM calls touch shared state, so a   *)
(* step is one ORM call with the code of the handler around it: the router   *)
(* and validateRequest run up to the first call (Arrive), and every handler  *)
(* goes on from one await to the next.                                       *)

Boot == <<env, proc, config, exitCode, errors>>

Answer(r, response) ==
  /\ resp' = [resp EXCEPT ![r] = response]
  /\ pc' = [pc EXCEPT ![r] = "done"]

\* validateRequest({ params, body }): 422 with every issue, or next()
validateRequest(q) ==
  IF Validated(q.op) /\ Violations(q) # {} THEN Invalid(Violations(q)) ELSE NoResp

\* (validateRequest on every request considered, worked out once)
Validation == [q \in Requests \cup Interfering |-> validateRequest(q)]

\* a request reaches the router: its validateRequest, then its handler
Arrive(r) ==
  /\ proc = "listening"
  /\ pc[r] \in {"idle", "done"}
  /\ \E q \in RequestsOn(r) :
       /\ req' = [req EXCEPT ![r] = q]
       /\ resp' = [resp EXCEPT ![r] = Validation[q]]
       /\ pc' = [pc EXCEPT ![r] = IF Validation[q] = NoResp THEN "handler" ELSE "done"]
  /\ UNCHANGED <<Boot, store, deleted>>

listCategories(r) ==
  /\ pc[r] = "handler" /\ req[r].op = "list"
  /\ Answer(r, Json(OK, findMany(store)))
  /\ UNCHANGED <<Boot, store, req, deleted>>

createCategory(r) ==
  /\ pc[r] = "handler" /\ req[r].op = "create"
  /\ LET res == dbCreate(store, WithSlug(req[r].body))
     IN  /\ store' = res.store
         /\ Answer(r, CASE res.code = "ok" -> Json(CREATED, <<WithId(res.store, res.id)>>)
                        [] res.code = "P2002" ->
                             Message(CONFLICT, "Category with this name or slug already exists")
                        [] OTHER ->
                             Message(INTERNAL_SERVER_ERROR, "Failed to create category"))
  /\ UNCHANGED <<Boot, req, deleted>>

getCategory(r) ==
  /\ pc[r] = "handler" /\ req[r].op = "get"
  /\ Answer(r, IF req[r].id \in DOMAIN store
               THEN Json(OK, <<WithId(store, req[r].id)>>)
               ELSE Message(NOT_FOUND, "Category not found"))
  /\ UNCHANGED <<Boot, store, req, deleted>>

\* (an existence check that also asks for an active row)
findExistingActive(r) ==
  /\ pc[r] = "handler" /\ req[r].op \in {"update", "delete"}
  /\ IF req[r].id \in DOMAIN store /\ store[req[r].id].isActive
     THEN /\ pc' = [pc EXCEPT ![r] = "found"]
          /\ UNCHANGED resp
     ELSE Answer(r, Message(NOT_FOUND, "Category not found"))
  /\ UNCHANGED <<Boot, store, req, deleted>>

\* the existence check of updateCategory and deleteCategory, up to its await
findExisting(r) ==
  /\ pc[r] = "handler" /\ req[r].op \in {"update", "delete"}
  /\ IF req[r].id \in DOMAIN store
     THEN /\ pc' = [pc EXCEPT ![r] = "found"]
          /\ UNCHANGED resp
     ELSE Answer(r, Message(NOT_FOUND, "Category not found"))
  /\ UNCHANGED <<Boot, store, req, deleted>>

\* updateCategory after the check: slug from name, db.category.update, response
updateCategory(r) ==
  /\ pc[r] = "found" /\ req[r].op = "update"
  /\ LET res == dbUpdate(store, req[r].id, WithSlug(req[r].body))
     IN  /\ store' = res.store
         /\ deleted' = IF res.code = "ok" /\ res.store # store
                       THEN deleted \ {req[r].id} ELSE deleted
         /\ Answer(r, CASE res.code = "ok" -> Json(OK, <<WithId(res.store, res.id)>>)
                        [] res.code = "P2002" ->
                             Message(CONFLICT, "Category with this name or slug already exists")
                        [] OTHER ->
                             Message(INTERNAL_SERVER_ERROR, "Failed to update category"))
  /\ UNCHANGED <<Boot, req>>

\* (a delete that removes the row)
deleteCategoryHard(r) ==
  /\ pc[r] = "found" /\ req[r].op = "delete"
  /\ store' = [i \in DOMAIN store \ {req[r].id} |-> store[i]]
  /\ deleted' = deleted
  /\ Answer(r, Message(OK, "Category deleted successfully"))
  /\ UNCHANGED <<Boot, req>>

\* deleteCategory after the check: isActive := false, response
deleteCategory(r) ==
  /\ pc[r] = "found" /\ req[r].op = "delete"
  /\ LET res == dbUpdate(store, req[r].id, Body({}, {}, {Bool(FALSE)}))
     IN  /\ store' = res.store
         /\ deleted' = IF res.code = "ok" THEN deleted \cup {req[r].id} ELSE deleted
         /\ Answer(r, IF res.code = "ok"
                      THEN Message(OK, "Category deleted successfully")
                      ELSE Message(INTERNAL_SERVER_ERROR, "Failed to delete category"))
  /\ UNCHANGED <<Boot, req>>

Next ==
  \/ LoadEnv
  \/ Listen
  \/ \E r \in Slots : Arrive(r)
  \/ \E r \in Slots : listCategories(r)
  \/ \E r \in Slots : createCategory(r)
  \/ \E r \in Slots : getCategory(r)
  \/ \E r \in Slots : findExisting(r)
  \/ \E r \in Slots : updateCategory(r)
  \/ \E r \in Slots : deleteCategory(r)

Spec == Init /\ [][Next]_vars

----------------------------------------------------------------------------
(* The slug derivation on its own: createCategory called with a body that   *)
(* has a name and no slug, for every name of up to MaxNameLen characters.   *)

SlugAlphabet == {"a", "B", "1", " ", "-"}

NamesUpTo(n) == UNION {[1..k -> SlugAlphabet] : k \in 1..n}

DefaultEnv == [PORT |-> {}, DATABASE_URL |-> {DatabaseUrl}]

SlugInit ==
  /\ env = DefaultEnv
  /\ proc = "listening"
  /\ config = ParseEnv(DefaultEnv)
  /\ exitCode = -1
  /\ errors = {}
  /\ store = NoStore
  /\ \E n \in NamesUpTo(MaxNameLen) :
       req = [r \in Slots |->
                IF r = 1 THEN [op |-> "create", id |-> 0, body |-> Body({Str(n)}, {}, {})]
                ELSE NoReq]
  /\ pc = [r \in Slots |-> IF r = 1 THEN "handler" ELSE "idle"]
  /\ resp = [r \in Slots |-> NoResp]
  /\ deleted = {}

SlugNext == createCategory(1)

SlugSpec == SlugInit /\ [][SlugNext]_vars

----------------------------------------------------------------------------
(* Vocabulary of the properties *)

\* connection r gets its response in this step
AnsweredNow(r) ==
  /\ pc'[r] = "done"
  /\ pc[r] # "done" \/ req'[r] # req[r] \/ resp'[r] # resp[r]

Done(r) == pc[r] = "done"

RowIds(rows) == {rows[k].id : k \in DOMAIN rows}

\* The slug the specification describes, written without the regular
\* expressions: the lower-cased name, where a character outside a-z0-9 is
\* dropped unless it is the first of a run that has a character of a-z0-9
\* somewhere before it and somewhere after it, and then it becomes a hyphen.
RefSlug(name) ==
  LET low == toLowerCase(name)
      Alnum(i) == low[i] \in Range(LowerSeq) \cup Range(Digits)
      Joint(i) == /\ ~Alnum(i)
                  /\ i > 1 /\ Alnum(i - 1)
                  /\ \E j \in DOMAIN low : j > i /\ Alnum(j)
      Kept == {i \in DOMAIN low : Alnum(i) \/ Joint(i)}
      Nth(k) == CHOOSE i \in Kept : Cardinality({j \in Kept : j <= i}) = k
  IN  [k \in 1..Cardinality(Kept) |-> IF Alnum(Nth(k)) THEN low[Nth(k)] ELSE "-"]

\* only a-z, 0-9 and hyphens, no two hyphens side by side, none at either end
SlugShape(s) ==
  /\ \A i \in DOMAIN s : s[i] \in Range(LowerSeq) \cup Range(Digits) \cup {"-"}
  /\ \A i \in DOMAIN s : i > 1 => ~(s[i] = "-" /\ s[i - 1] = "-")
  /\ s # <<>> => s[1] # "-" /\ s[Len(s)] # "-"

ElectronicsOnly == [op |-> "create", id |-> 0, body |-> Body({Str(Electronics)}, {}, {})]

\* a create body whose name is valid and whose slug is absent or valid
NamedCreate(q) ==
  /\ q.op = "create"
  /\ CreateCategorySchema(q.body) \subseteq {"slug"}
  /\ Has(q.body, "slug") => NonEmptyString(Val(q.body, "slug"))

\* the slug such a body carries: the one supplied, else the one derived
CarriedSlug(q) ==
  IF Has(q.body, "slug") THEN Val(q.body, "slug").s ELSE RefSlug(Val(q.body, "name").s)

\* what the claims' route table declares for a request: POST / checks the
\* body against the create schema, PATCH /:id the id and the body against the
\* update schema, GET /:id and DELETE /:id the id
Issues(q) ==
  CASE q.op = "create" -> CreateCategorySchema(q.body)
    [] q.op = "update" -> IdParamSchema(q.id) \cup UpdateCategorySchema(q.body)
    [] q.op \in {"get", "delete"} -> IdParamSchema(q.id)
    [] OTHER -> {}

\* the name and the slug row id has once the update q is written over it
NameAfter(q) ==
  IF Has(q.body, "name") THEN Val(q.body, "name").s ELSE store[q.id].name
SlugAfter(q) ==
  IF Has(q.body, "slug") THEN Val(q.body, "slug").s
  ELSE IF Has(q.body, "name") THEN RefSlug(Val(q.body, "name").s)
  ELSE store[q.id].slug

\* writing q would give row q.id the name or the slug of another row
WouldClash(q) ==
  \E j \in DOMAIN store \ {q.id} :
    store[j].name = NameAfter(q) \/ store[j].slug = SlugAfter(q)

----------------------------------------------------------------------------
(* C1: a POST of {"name":"Electronics"} on a store with no row named         *)
(* Electronics or slugged electronics is answered 201 with slug              *)
(* "electronics" and isActive true.  (Refuted: CreateCategorySchema keeps    *)
(* slug required, so the request is answered 422 before createCategory.)     *)
C1_PostElectronics ==
  [][\A r \in Slots :
       (/\ AnsweredNow(r)
        /\ req'[r] = ElectronicsOnly
        /\ \A i \in DOMAIN store :
             store[i].name # Electronics /\ store[i].slug # electronics)
       => /\ resp'[r].status = CREATED
          /\ Len(resp'[r].rows) = 1
          /\ resp'[r].rows[1].slug = electronics
          /\ resp'[r].rows[1].isActive]_vars

(* C2: once a DELETE of an id was answered 200, and until an update changes  *)
(* that row, every list response leaves the row out and every GET of the id  *)
(* is answered 200 with the row and isActive false.                          *)
C2_SoftDeleteHidesFromList ==
  [][\A r \in Slots :
       AnsweredNow(r) =>
         /\ (req'[r].op = "delete" /\ resp'[r].status = OK)
              => /\ req'[r].id \in deleted'
                 /\ ~store'[req'[r].id].isActive
         /\ req'[r].op = "list"
              => /\ resp'[r].status = OK
                 /\ RowIds(resp'[r].rows) \cap deleted = {}
         /\ (req'[r].op = "get" /\ req'[r].id \in deleted)
              => /\ resp'[r].status = OK
                 /\ resp'[r].rows = <<WithId(store, req'[r].id)>>
                 /\ ~resp'[r].rows[1].isActive]_vars

C2_Witness ==
  \E r \in Slots :
    /\ Done(r) /\ req[r].op = "list"
    /\ 1 \in deleted /\ 2 \in DOMAIN store
    /\ RowIds(resp[r].rows) = {2}

(* C3: of two creates that carry the same name or the same (supplied or      *)
(* derived) slug, the one answered while no row has the value gets 201 and   *)
(* adds exactly one row, and the one answered while a row has it gets 409    *)
(* and adds none.  (Refuted through C1: a create without a slug gets 422.)   *)
C3_OneCreatedOneConflict ==
  [][\A r \in Slots :
       (AnsweredNow(r) /\ NamedCreate(req'[r])) =>
         LET n == Val(req'[r].body, "name").s
             g == CarriedSlug(req'[r])
         IN  IF \E i \in DOMAIN store : store[i].name = n \/ store[i].slug = g
             THEN resp'[r].status = CONFLICT /\ store' = store
             ELSE /\ resp'[r].status = CREATED
                  /\ Cardinality({i \in DOMAIN store' : store'[i].name = n}) = 1
                  /\ Cardinality({i \in DOMAIN store' : store'[i].slug = g}) = 1]_vars

(* C4: getCategory, updateCategory and deleteCategory answer 404 for an id   *)
(* that no row has, and never 500; an id found by the existence check of     *)
(* update or delete still has its row when the write runs.                   *)
C4_AbsentIdIs404 ==
  \A r \in Slots :
    /\ (pc[r] = "found") => req[r].id \in DOMAIN store
    /\ (Done(r) /\ req[r].op \in {"get", "update", "delete"})
         => /\ resp[r].status # INTERNAL_SERVER_ERROR
            /\ (Issues(req[r]) = {} /\ req[r].id \notin DOMAIN store)
                 => resp[r].status = NOT_FOUND

C4_Witness ==
  /\ Done(1) /\ req[1].op = "update" /\ resp[1].status = NOT_FOUND
  /\ req[1].id \notin DOMAIN store
  /\ pc[2] = "found"

C6_InvalidIs422 ==
  [][\A r \in Slots :
       /\ (pc'[r] # "idle" /\ Issues(req'[r]) # {})
            => /\ pc'[r] = "done"
               /\ resp'[r].status = UNPROCESSABLE_ENTITY
               /\ resp'[r].fields = Issues(req'[r])
       /\ (AnsweredNow(r) /\ resp'[r].status = UNPROCESSABLE_ENTITY)
            => store' = store]_vars

C6_Witness ==
  \E r \in Slots :
    /\ Done(r) /\ req[r].op = "update"
    /\ resp[r].status = UNPROCESSABLE_ENTITY
    /\ resp[r].fields = {"name", "isActive"}
    /\ req[r].id \in DOMAIN store

(* C7: when the environment fails EnvSchema, the process reports the fields  *)
(* at fault and exits with status 1, and never gets to app.listen.           *)
C7_InvalidEnvNeverListens ==
  (env.DATABASE_URL = {} \/ env.PORT = {<<"a", "b", "c">>})
    => /\ proc \in {"starting", "exited"}
       /\ proc = "exited"
            => /\ exitCode = 1
               /\ errors = {k \in {"DATABASE_URL"} : env.DATABASE_URL = {}}
                             \cup {k \in {"PORT"} : env.PORT = {<<"a", "b", "c">>}}

C7_Witness ==
  /\ proc = "exited" /\ exitCode = 1
  /\ errors = {"PORT", "DATABASE_URL"}

(* C8: an update answered 200 stores the slug the body supplies; without one *)
(* it stores the slug derived from the name the body supplies, by the rule   *)
(* of create; with neither it leaves the stored slug as it was.              *)
C8_UpdateSlug ==
  [][\A r \in Slots :
       (AnsweredNow(r) /\ req'[r].op = "update" /\ resp'[r].status = OK)
         => /\ store'[req'[r].id].slug = SlugAfter(req'[r])
            /\ resp'[r].rows[1].slug = SlugAfter(req'[r])]_vars

C8_Witness ==
  /\ Done(1) /\ req[1].op = "create" /\ resp[1].status = CREATED
  /\ resp[1].rows[1].name = Electronics /\ resp[1].rows[1].slug = tv
  /\ Done(2) /\ req[2].op = "update" /\ resp[2].status = OK
  /\ req[2].id = resp[1].rows[1].id
  /\ req[2].body = Body({Str(electronics)}, {}, {})
  /\ store[req[2].id].slug = electronics

(* C9: no two rows share a name and no two share a slug, whatever creates,   *)
(* updates and deletes interleave; an update that would break this is        *)
(* answered 409 and changes nothing.                                         *)
C9_UniqueNameAndSlug ==
  [][/\ \A i, j \in DOMAIN store' :
          i # j => store'[i].name # store'[j].name /\ store'[i].slug # store'[j].slug
     /\ \A r \in Slots :
          (AnsweredNow(r) /\ req'[r].op = "update" /\ pc[r] = "found")
            => IF WouldClash(req'[r])
               THEN resp'[r].status = CONFLICT /\ store' = store
               ELSE resp'[r].status = OK]_vars

C9_Witness ==
  \E r \in Slots :
    /\ Done(r) /\ req[r].op = "update" /\ resp[r].status = CONFLICT
    /\ req[r].body = Body({Str(electronics)}, {}, {})
    /\ store[req[r].id].name = electronics
    /\ store[req[r].id].slug = tv

(* C10: soft deletion is not final.  updateCategory asks only whether the id *)
(* has a row: a PATCH of a soft-deleted row is never answered 404 and is     *)
(* answered 200 unless it clashes with another row, and after a PATCH with   *)
(* isActive true the list responses show the row again.                      *)
C10_UpdateRevives ==
  [][\A r \in Slots :
       AnsweredNow(r) =>
         /\ (req'[r].op = "update" /\ resp'[r].status = NOT_FOUND)
              => req'[r].id \notin DOMAIN store
         /\ (req'[r].op = "update" /\ pc[r] = "found" /\ ~store[req'[r].id].isActive)
              => /\ resp'[r].status = IF WouldClash(req'[r]) THEN CONFLICT ELSE OK
                 /\ (resp'[r].status = OK /\ req'[r].body.isActive = {Bool(TRUE)})
                      => store'[req'[r].id].isActive
         /\ req'[r].op = "list"
              => RowIds(resp'[r].rows) = {i \in DOMAIN store : store[i].isActive}]_vars

C10_Witness ==
  /\ Done(1) /\ req[1].op = "delete" /\ resp[1].status = OK
  /\ Done(2) /\ req[2].op = "update" /\ resp[2].status = OK
  /\ req[2].id = req[1].id
  /\ req[2].body = Body({}, {}, {Bool(TRUE)})
  /\ store[req[2].id].isActive

(* C11: a category request answered 404, 409, 422 or 500 leaves every row    *)
(* as it was; the store changes only in a step where create, update or       *)
(* delete is answered 200 or 201, and never when list or get is answered.    *)
C11_ErrorsChangeNothing ==
  [][/\ \A r \in Slots :
          (/\ AnsweredNow(r)
           /\ \/ resp'[r].status \in {NOT_FOUND, CONFLICT, UNPROCESSABLE_ENTITY,
                                      INTERNAL_SERVER_ERROR}
              \/ req'[r].op \in {"list", "get"})
            => store' = store
     /\ store' # store
          => \E r \in Slots :
               /\ AnsweredNow(r)
               /\ req'[r].op \in {"create", "update", "delete"}
               /\ resp'[r].status \in {OK, CREATED}]_vars

C11_Witness ==
  /\ Done(1) /\ req[1].op = "update" /\ resp[1].status = CONFLICT
  /\ Has(req[1].body, "name")
  /\ store[req[1].id].name # Val(req[1].body, "name").s
  /\ Done(2) /\ req[2].op = "update" /\ resp[2].status = NOT_FOUND

====
